---- MODULE Spec2Model ----
(***************************************************************************)
(* State-machine model of the object-room prototypes of tryAframe.         *)
(*                                                                         *)
(*   Spec        the Three.js variant, class VRObjectCreator               *)
(*               (src/app.js, lines 682-1744), controllers at rest         *)
(*   SpecMotion  the grab handlers and the frame loop of VRObjectCreator   *)
(*               with moving controllers                                   *)
(*   SpecDesktop the keyboard, mouse and button handlers of                *)
(*               VRObjectCreator                                           *)
(*   SpecRetry   the controller listeners of VRObjectCreator and the       *)
(*               'Retry WebXR Detection' button                            *)
(*   SpecAFrame  the simplified A-Frame workshop (src/app.js, lines 1-680) *)
(*   SpecAFrameLook  the A-Frame workshop with the entities' materials     *)
(*   SpecScale   the two-hand scale computation (specification, 4.3)       *)
(*   SpecWorkshop the spawn-button workshop (src/unnamed/part_000)         *)
(*                                                                         *)
(* JavaScript object references are modelled as handles 1..NumHandles that *)
(* are allocated in creation order and never reused.                       *)
(***************************************************************************)
EXTENDS Integers, Sequences, FiniteSets, TLC

\* ------------------------------------------------------------------ bounds
\* The object maximum the specification configures (scaled down).
MaxObjects == 2
\* Objects one session of the model may allocate: one more than the maximum.
NumHandles == MaxObjects + 1
\* Last value of the millisecond clock read by Date.now().
MaxClock == 2
\* Entities one session of an A-Frame workshop may spawn.
MaxEntities == 2
\* Timers of the A-Frame workshops that may be pending at once.
MaxTimers == 3
\* Largest distance between the two hands, in tenths of a unit.
MaxDist == 12
\* Objects one session of SpecMotion may allocate.
MaxMoved == 1
\* Greatest height a controller carries an object to, in quarters of a unit.
MaxHeight == 5
\* Farthest a controller carries an object to either side, in quarters of a unit.
MaxSide == 1
\* Longest a due setTimeout callback waits for the event loop, in units of UnitMs.
MaxLate == 1

\* Clicks on 'Retry WebXR Detection' in one run of the page.
MaxRetries == 1

\* ------------------------------------------------------------- constants
\* JavaScript null (grabbedObject, grabbedController, selectedObject).
Null == -1
\* material.emissive of a grabbed object, 0x444444.
EmissiveGrabbed == 4473924
\* material.emissive of a released object, 0x000000.
EmissiveNone == 0
\* Height below which updateGrabbedObject lifts the held object: 0.25, in
\* quarters of a unit.
FloorY == 1
\* One unit of model time, in milliseconds: the stagger of clearAllObjects.
UnitMs == 50
\* setTimeout delay of interactive-object.deleteObject, in milliseconds.
DeleteDelayMs == 300
\* setTimeout delay of the removal in clearAllObjects, in milliseconds.
ClearRemoveDelayMs == 200

Handles == 1..NumHandles
Entities == 1..MaxEntities
ControllerIndexes == {0, 1}

VARIABLES
    \* ---- VRObjectCreator (Three.js variant)
    objects,            \* this.objects: sequence of handles
    sceneObjects,       \* spawned meshes that are children of this.scene
    grabbedObject,      \* this.grabbedObject: handle or Null
    grabbedController,  \* this.grabbedController: 0, 1 or Null
    isDeleteMode,       \* this.isDeleteMode
    controllers,        \* this.controllers: sequence of controller indexes
    inputMethod,        \* this.inputMethod
    userDataId,         \* object.userData.id of every allocated handle
    emissive,           \* object.material.emissive of every allocated handle
    nextHandle,         \* next handle `new THREE.Mesh` returns
    now,                \* Date.now()
    triggerDown,        \* controllers between their selectstart and selectend
    position,           \* object.position of every allocated handle: [x, y]
    quaternion,         \* object.quaternion of every allocated handle
    grabOffset,         \* this.grabOffset: [x, y]
    grabRotationOffset, \* this.grabRotationOffset
    objectCountText,    \* the count updateUI has written to '#object-count'
    controllerPose,     \* matrixWorld of each controller: [x, y, q]
    dispatch,           \* listener calls the controller event being dispatched
                        \* has still to make
    \* ---- simplified A-Frame workshop (src/app.js, first listener)
    objectCounter,      \* objectCounter; entity n is the n-th spawned entity
    isVRMode,           \* isVRMode
    deleteMode,         \* deleteMode
    selectedObject,     \* selectedObject: entity or Null
    statsObjects,       \* performanceStats.objects
    domObjects,         \* '.interactive-object' entities attached to the scene
    timers,             \* pending setTimeout callbacks, in the order they will run
    material,           \* the material component of every entity: colour and
                        \* emissive colour
    hovered,            \* the entity under the cursor, or Null
    \* ---- spawn-button workshop (src/unnamed/part_000): it declares
    \* objectCounter, isVRMode and performanceStats as well, and has
    sceneLoaded,        \* the scene's 'loaded' listener has run
    \* ---- two-hand session (specification, section 4.3)
    session,            \* the live TwoHandSession records: none or one
    handDistance,       \* current distance between the two sources, in tenths
    objectScale         \* scale of the shared object, a fraction <<num, den>> of tenths

\* The fields of VRObjectCreator and the heap and clock it reads.
creatorVars == <<objects, sceneObjects, grabbedObject, grabbedController,
                 isDeleteMode, controllers, inputMethod, userDataId, emissive,
                 nextHandle, now, position, quaternion, grabOffset,
                 grabRotationOffset, objectCountText>>

threeVars == <<creatorVars, triggerDown, controllerPose>>

aframeVars == <<objectCounter, isVRMode, deleteMode, selectedObject,
                statsObjects, domObjects, timers>>

scaleVars == <<session, handDistance, objectScale>>

lookVars == <<material, hovered>>

vars == <<threeVars, dispatch, aframeVars, lookVars, sceneLoaded, scaleVars>>

\* ------------------------------------------------------------- helpers
Range(s) == {s[i] : i \in 1..Len(s)}

\* Array.prototype.indexOf followed by splice(index, 1): drops the first
\* occurrence of x and keeps the order of the rest.
RECURSIVE SpliceOut(_, _)
SpliceOut(s, x) ==
    IF s = <<>> THEN <<>>
    ELSE IF Head(s) = x THEN Tail(s)
    ELSE <<Head(s)>> \o SpliceOut(Tail(s), x)

\* ------------------------------------------------- VRObjectCreator: state
\* new THREE.Vector3(): the zero vector. The model keeps x and y, in quarters
\* of a unit.
ZeroVector == [x |-> 0, y |-> 0]

\* new THREE.Quaternion(): the identity. Orientations are the members of a
\* two-element set, the identity being 0.
IdentityQuaternion == 0

\* createObject: x = (Math.random() - 0.5) * 3 and y = 1 + Math.random() * 0.5.
\* One sample, the lowest in the middle of the platform; the controllers
\* carry the objects to other places.
SpawnPosition == [x |-> 0, y |-> 4]

\* Two poses of a controller: at rest in front of the platform, and lowered
\* to the floor, moved sideways and turned.
RestPose == [x |-> 0, y |-> 4, q |-> IdentityQuaternion]

ControllerPoses == {RestPose, [x |-> 1, y |-> 0, q |-> 1]}

ThreeInit ==
    /\ objects = <<>>
    /\ sceneObjects = {}
    /\ grabbedObject = Null
    /\ grabbedController = Null
    /\ isDeleteMode = FALSE
    \* init() awaits setupVR(), which registers the two controllers only
    \* when navigator.xr exists.
    /\ controllers \in {<<>>, <<0, 1>>}
    /\ inputMethod = "desktop"
    /\ userDataId = [h \in Handles |-> Null]
    /\ emissive = [h \in Handles |-> EmissiveNone]
    /\ nextHandle = 1
    /\ now = 0
    /\ triggerDown = {}
    /\ position = [h \in Handles |-> ZeroVector]
    /\ quaternion = [h \in Handles |-> IdentityQuaternion]
    /\ grabOffset = ZeroVector
    /\ grabRotationOffset = IdentityQuaternion
    \* init() ends with updateUI().
    /\ objectCountText = 0
    /\ controllerPose = [ci \in ControllerIndexes |-> RestPose]
    /\ dispatch = <<>>

\* inputMethod.includes('vr')
InputIsVR == inputMethod \in {"vr-controllers", "vr-session"}

\* this.controllers[ci] is a controller.
Registered(ci) == ci # Null /\ ci + 1 <= Len(controllers)

\* ------------------------------------------- VRObjectCreator: operations
\* createObject(type): a new mesh at a random position is pushed to objects
\* and added to the scene; userData.id is Date.now().
CreateObject ==
    /\ nextHandle <= NumHandles
    /\ objects' = Append(objects, nextHandle)
    /\ sceneObjects' = sceneObjects \cup {nextHandle}
    /\ userDataId' = [userDataId EXCEPT ![nextHandle] = now]
    /\ position' = [position EXCEPT ![nextHandle] = SpawnPosition]
    /\ nextHandle' = nextHandle + 1
    /\ objectCountText' = Len(objects) + 1
    /\ UNCHANGED <<grabbedObject, grabbedController, isDeleteMode,
                   controllers, inputMethod, emissive, now, quaternion,
                   grabOffset, grabRotationOffset>>

\* deleteObject that splices the list and leaves the mesh in the scene.
DeleteObjectLeavesMesh(o) ==
    /\ IF o \in Range(objects)
       THEN /\ objects' = SpliceOut(objects, o)
            /\ objectCountText' = Len(SpliceOut(objects, o))
            /\ UNCHANGED sceneObjects
       ELSE UNCHANGED <<objects, sceneObjects, objectCountText>>
    /\ UNCHANGED <<grabbedObject, grabbedController, isDeleteMode,
                   controllers, inputMethod, userDataId, emissive,
                   nextHandle, now, position, quaternion, grabOffset,
                   grabRotationOffset>>

\* deleteObject(object)
DeleteObject(o) ==
    /\ IF o \in Range(objects)
       THEN /\ objects' = SpliceOut(objects, o)
            /\ sceneObjects' = sceneObjects \ {o}
            /\ objectCountText' = Len(SpliceOut(objects, o))
       ELSE UNCHANGED <<objects, sceneObjects, objectCountText>>
    /\ UNCHANGED <<grabbedObject, grabbedController, isDeleteMode,
                   controllers, inputMethod, userDataId, emissive,
                   nextHandle, now, position, quaternion, grabOffset,
                   grabRotationOffset>>

\* grabObject(object, controller, controllerIndex); the controller is
\* this.controllers[ci], undefined for the mouse.
GrabObject(o, ci) ==
    /\ grabbedObject' = o
    /\ grabbedController' = ci
    /\ IF Registered(ci)
       THEN grabOffset' = [x |-> position[o].x - controllerPose[ci].x,
                           y |-> position[o].y - controllerPose[ci].y]
       ELSE UNCHANGED grabOffset
    /\ grabRotationOffset' = quaternion[o]
    /\ emissive' = [emissive EXCEPT ![o] = EmissiveGrabbed]
    /\ UNCHANGED <<objects, objectCountText, sceneObjects, isDeleteMode,
                   controllers, inputMethod, userDataId, nextHandle, now,
                   position, quaternion>>

\* releaseObject that forgets the object and keeps the controller.
ReleaseObjectKeepsController ==
    /\ IF grabbedObject # Null
       THEN /\ emissive' = [emissive EXCEPT ![grabbedObject] = EmissiveNone]
            /\ grabbedObject' = Null
            /\ UNCHANGED grabbedController
       ELSE UNCHANGED <<emissive, grabbedObject, grabbedController>>
    /\ UNCHANGED <<objects, objectCountText, sceneObjects, isDeleteMode,
                   controllers, inputMethod, userDataId, nextHandle, now,
                   position, quaternion, grabOffset, grabRotationOffset>>

\* releaseObject()
ReleaseObject ==
    /\ IF grabbedObject # Null
       THEN /\ emissive' = [emissive EXCEPT ![grabbedObject] = EmissiveNone]
            /\ grabbedObject' = Null
            /\ grabbedController' = Null
       ELSE UNCHANGED <<emissive, grabbedObject, grabbedController>>
    /\ UNCHANGED <<objects, objectCountText, sceneObjects, isDeleteMode,
                   controllers, inputMethod, userDataId, nextHandle, now,
                   position, quaternion, grabOffset, grabRotationOffset>>

\* The position updateGrabbedObject computes before it looks at the floor.
CarriedPosition ==
    [x |-> controllerPose[grabbedController].x + grabOffset.x,
     y |-> controllerPose[grabbedController].y + grabOffset.y]

\* if (position.y < 0.25) position.y = 0.25
KeepAboveGround(p) == IF p.y < FloorY THEN [p EXCEPT !.y = FloorY] ELSE p

\* updateGrabbedObject() that turns the object relative to the orientation
\* it had at the grab: the controller's rotation composed with
\* grabRotationOffset.
UpdateGrabbedObjectRelativeRotation ==
    /\ IF grabbedObject # Null /\ Registered(grabbedController)
       THEN /\ position' = [position EXCEPT
                              ![grabbedObject] = KeepAboveGround(CarriedPosition)]
            /\ quaternion' = [quaternion EXCEPT
                                ![grabbedObject] =
                                    (controllerPose[grabbedController].q
                                       + grabRotationOffset) % 2]
       ELSE UNCHANGED <<position, quaternion>>
    /\ UNCHANGED <<objects, objectCountText, sceneObjects, grabbedObject,
                   grabbedController, isDeleteMode, controllers, inputMethod,
                   userDataId, emissive, nextHandle, now, grabOffset,
                   grabRotationOffset>>

\* updateGrabbedObject() without the test of the floor height.
UpdateGrabbedObjectNoFloor ==
    /\ IF grabbedObject # Null /\ Registered(grabbedController)
       THEN /\ position' = [position EXCEPT ![grabbedObject] = CarriedPosition]
            /\ quaternion' = [quaternion EXCEPT
                                ![grabbedObject] = controllerPose[grabbedController].q]
       ELSE UNCHANGED <<position, quaternion>>
    /\ UNCHANGED <<objects, objectCountText, sceneObjects, grabbedObject,
                   grabbedController, isDeleteMode, controllers, inputMethod,
                   userDataId, emissive, nextHandle, now, grabOffset,
                   grabRotationOffset>>

\* updateGrabbedObject() that forgets grabOffset: the object snaps to the
\* controller.
UpdateGrabbedObjectNoOffset ==
    /\ IF grabbedObject # Null /\ Registered(grabbedController)
       THEN /\ position' = [position EXCEPT
                              ![grabbedObject] =
                                  KeepAboveGround(
                                      [x |-> controllerPose[grabbedController].x,
                                       y |-> controllerPose[grabbedController].y])]
            /\ quaternion' = [quaternion EXCEPT
                                ![grabbedObject] = controllerPose[grabbedController].q]
       ELSE UNCHANGED <<position, quaternion>>
    /\ UNCHANGED <<objects, objectCountText, sceneObjects, grabbedObject,
                   grabbedController, isDeleteMode, controllers, inputMethod,
                   userDataId, emissive, nextHandle, now, grabOffset,
                   grabRotationOffset>>

\* updateGrabbedObject()
UpdateGrabbedObject ==
    /\ IF grabbedObject # Null /\ Registered(grabbedController)
       THEN /\ position' = [position EXCEPT
                              ![grabbedObject] = KeepAboveGround(CarriedPosition)]
            /\ quaternion' = [quaternion EXCEPT
                                ![grabbedObject] = controllerPose[grabbedController].q]
       ELSE UNCHANGED <<position, quaternion>>
    /\ UNCHANGED <<objects, objectCountText, sceneObjects, grabbedObject,
                   grabbedController, isDeleteMode, controllers, inputMethod,
                   userDataId, emissive, nextHandle, now, grabOffset,
                   grabRotationOffset>>

\* A toggle that also drops the held object.
ToggleDeleteModeDropsGrab ==
    /\ isDeleteMode' = ~isDeleteMode
    /\ grabbedObject' = Null
    /\ grabbedController' = Null
    /\ objectCountText' = Len(objects)
    /\ UNCHANGED <<objects, sceneObjects, controllers, inputMethod,
                   userDataId, emissive, nextHandle, now, position,
                   quaternion, grabOffset, grabRotationOffset>>

\* this.isDeleteMode = !this.isDeleteMode; this.updateDeleteMode()
ToggleDeleteMode ==
    /\ isDeleteMode' = ~isDeleteMode
    /\ objectCountText' = Len(objects)
    /\ UNCHANGED <<objects, sceneObjects, grabbedObject, grabbedController,
                   controllers, inputMethod, userDataId, emissive,
                   nextHandle, now, position, quaternion, grabOffset,
                   grabRotationOffset>>

\* What a ray can hit: nothing, a menu shape button, the delete button, or a
\* mesh of this.objects (getIntersections / handleMouseInteraction intersect
\* [...this.objects, ...this.menuButtons] only).
Interactable(o) == [type |-> "interactable", obj |-> o]

Targets ==
    {[type |-> "none", obj |-> Null],
     [type |-> "menuButton", obj |-> Null],
     [type |-> "deleteButton", obj |-> Null]}
    \cup {Interactable(o) : o \in Range(objects)}

\* handleObjectInteraction(object, controller, controllerIndex)
HandleObjectInteraction(t, ci) ==
    IF t.type = "menuButton" THEN CreateObject
    ELSE IF t.type = "deleteButton" THEN ToggleDeleteMode
    ELSE IF isDeleteMode THEN DeleteObject(t.obj)
    ELSE GrabObject(t.obj, ci)

\* onSelectStart without the test of this.controllers[ci].
OnSelectStartOfAnyIndex(ci, t) ==
    /\ ci \notin triggerDown
    /\ triggerDown' = triggerDown \cup {ci}
    /\ IF t.type = "none" THEN UNCHANGED creatorVars
       ELSE HandleObjectInteraction(t, ci)

\* onSelectStart(event, controllerIndex); t is the first hit of the ray.
\* Without a controller at this.controllers[ci] the handler returns at once.
\* An XR input source sends selectstart and selectend alternately.
OnSelectStart(ci, t) ==
    IF ~Registered(ci) THEN UNCHANGED <<creatorVars, triggerDown>>
    ELSE /\ ci \notin triggerDown
         /\ triggerDown' = triggerDown \cup {ci}
         /\ IF t.type = "none" THEN UNCHANGED creatorVars
            ELSE HandleObjectInteraction(t, ci)

\* onSelectEnd without the test of the holder.
SelectEndOfAnyController(ci) == ReleaseObject

\* onSelectEnd(event, controllerIndex)
SelectEnd(ci) ==
    IF grabbedController = ci THEN ReleaseObject ELSE UNCHANGED creatorVars

OnSelectEnd(ci) ==
    /\ ci + 1 <= Len(controllers)
    /\ ci \in triggerDown
    /\ triggerDown' = triggerDown \ {ci}
    /\ SelectEnd(ci)

\* onControllerDisconnected(index)
OnControllerDisconnected(ci) ==
    /\ ci + 1 <= Len(controllers)
    /\ triggerDown' = triggerDown \ {ci}
    /\ IF grabbedController = ci THEN SelectEnd(ci) ELSE UNCHANGED creatorVars

\* onControllerConnected(event, index)
OnControllerConnected(ci) ==
    /\ ci + 1 <= Len(controllers)
    /\ inputMethod' = "vr-controllers"
    /\ objectCountText' = Len(objects)
    /\ UNCHANGED <<objects, sceneObjects, grabbedObject, grabbedController,
                   isDeleteMode, controllers, userDataId, emissive,
                   nextHandle, now, triggerDown, position, quaternion,
                   grabOffset, grabRotationOffset>>

\* renderer.xr 'sessionstart' listener
OnSessionStart ==
    /\ Len(controllers) > 0
    /\ inputMethod' = "vr-session"
    /\ objectCountText' = Len(objects)
    /\ UNCHANGED <<objects, sceneObjects, grabbedObject, grabbedController,
                   isDeleteMode, controllers, userDataId, emissive,
                   nextHandle, now, triggerDown, position, quaternion,
                   grabOffset, grabRotationOffset>>

\* renderer.xr 'sessionend' listener
OnSessionEnd ==
    /\ inputMethod = "vr-session"
    /\ inputMethod' = "desktop"
    /\ objectCountText' = Len(objects)
    /\ UNCHANGED <<objects, sceneObjects, grabbedObject, grabbedController,
                   isDeleteMode, controllers, userDataId, emissive,
                   nextHandle, now, triggerDown, position, quaternion,
                   grabOffset, grabRotationOffset>>

\* handleMouseInteraction(event): click on the canvas; t is the first hit.
HandleMouseInteraction(t) ==
    /\ t.type # "none"
    /\ HandleObjectInteraction(t, Null)
    /\ UNCHANGED triggerDown

\* click on a desktop '.create-btn' button
OnCreateButtonClick == CreateObject /\ UNCHANGED triggerDown

\* click on the desktop '#toggle-delete' button
OnDeleteToggleClick == ToggleDeleteMode /\ UNCHANGED triggerDown

KeyCodes == {"KeyC", "KeyS", "KeyT", "KeyD", "Escape"}

\* onKeyDown without the test of inputMethod.
OnKeyDownInVR(code) ==
    /\ UNCHANGED triggerDown
    /\ IF code \in {"KeyC", "KeyS", "KeyT"} THEN CreateObject
       ELSE IF code = "KeyD" THEN ToggleDeleteMode
       ELSE IF grabbedObject # Null THEN ReleaseObject
       ELSE UNCHANGED creatorVars

\* onKeyDown(event)
OnKeyDown(code) ==
    /\ UNCHANGED triggerDown
    /\ IF InputIsVR THEN UNCHANGED creatorVars
       ELSE IF code \in {"KeyC", "KeyS", "KeyT"} THEN CreateObject
       ELSE IF code = "KeyD" THEN ToggleDeleteMode
       ELSE IF grabbedObject # Null THEN ReleaseObject
       ELSE UNCHANGED creatorVars

\* One run of the animation loop callback: updateGrabbedObject(), then the
\* render.
AnimateFrame == UpdateGrabbedObject /\ UNCHANGED triggerDown

\* The tracked pose of controller ci changes to p. A controller that holds
\* an object carries it no further than MaxSide and MaxHeight.
ControllerMoves(ci, p) ==
    /\ Registered(ci)
    /\ p # controllerPose[ci]
    /\ (grabbedObject # Null /\ grabbedController = ci)
         => /\ p.x + grabOffset.x \in (0 - MaxSide)..MaxSide
            /\ p.y + grabOffset.y <= MaxHeight
    /\ controllerPose' = [controllerPose EXCEPT ![ci] = p]
    /\ UNCHANGED <<creatorVars, triggerDown>>

ControllerMovesStep ==
    \E ci \in ControllerIndexes : \E p \in ControllerPoses : ControllerMoves(ci, p)

\* The millisecond clock behind Date.now() advances.
ClockTick ==
    /\ now < MaxClock
    /\ now' = now + 1
    /\ UNCHANGED <<objects, objectCountText, sceneObjects, grabbedObject,
                   grabbedController, isDeleteMode, controllers, inputMethod,
                   userDataId, emissive, nextHandle, triggerDown, position,
                   quaternion, grabOffset, grabRotationOffset>>

\* ------------------------------- VRObjectCreator: listener registration
\* setupControllers adds one selectstart and one selectend listener to each
\* controller and pushes both controllers: every run of it adds a set of
\* listeners and two entries of this.controllers.
ListenersPerEvent == Len(controllers) \div 2

\* click on '#retry-webxr': checkWebXRCompatibility, updateCompatibilityUI,
\* setupVR. navigator.xr does not come or go while the page runs, so
\* webXRSupported is what it was in init(), where setupVR registered the
\* controllers iff it was true; setupVR returns at once when it is false.
RetryWebXR ==
    /\ dispatch = <<>>
    /\ Len(controllers) < 2 * (MaxRetries + 1)
    /\ IF controllers = <<>> THEN UNCHANGED controllers
       ELSE controllers' = controllers \o <<0, 1>>
    /\ UNCHANGED <<objects, objectCountText, sceneObjects, grabbedObject,
                   grabbedController, isDeleteMode, inputMethod, userDataId,
                   emissive, nextHandle, now, triggerDown, position,
                   quaternion, grabOffset, grabRotationOffset, dispatch>>

ListenerCall(event, ci, t) == [event |-> event, ci |-> ci, t |-> t]

\* The trigger of controller ci is pressed while its ray points at t: the
\* controller dispatches 'selectstart' to its listeners, in the order they
\* were added.
TriggerPressed(ci, t) ==
    /\ dispatch = <<>>
    /\ ListenersPerEvent > 0
    /\ ci \notin triggerDown
    /\ t.type = "menuButton" => nextHandle + ListenersPerEvent <= NumHandles + 1
    /\ triggerDown' = triggerDown \cup {ci}
    /\ dispatch' = [i \in 1..ListenersPerEvent |-> ListenerCall("selectstart", ci, t)]
    /\ UNCHANGED creatorVars

\* The trigger of controller ci is let go: 'selectend' is dispatched.
TriggerReleased(ci) ==
    /\ dispatch = <<>>
    /\ ListenersPerEvent > 0
    /\ ci \in triggerDown
    /\ triggerDown' = triggerDown \ {ci}
    /\ dispatch' = [i \in 1..ListenersPerEvent |->
                       ListenerCall("selectend", ci, [type |-> "none", obj |-> Null])]
    /\ UNCHANGED creatorVars

\* What the ray of getIntersections hits first when the listener runs: an
\* object an earlier listener of the same event deleted is no longer in
\* this.objects.
FirstHit(t) ==
    IF t.type = "interactable" /\ t.obj \notin Range(objects)
    THEN [type |-> "none", obj |-> Null]
    ELSE t

\* One 'selectstart' listener runs: onSelectStart(event, ci).
SelectStartListener(ci, t) ==
    IF ~Registered(ci) \/ FirstHit(t).type = "none" THEN UNCHANGED creatorVars
    ELSE HandleObjectInteraction(FirstHit(t), ci)

\* The next listener of the event being dispatched runs.
RunListener ==
    /\ dispatch # <<>>
    /\ LET call == Head(dispatch) IN
         IF call.event = "selectstart" THEN SelectStartListener(call.ci, call.t)
         ELSE SelectEnd(call.ci)
    /\ dispatch' = Tail(dispatch)
    /\ UNCHANGED triggerDown

TriggerPressedStep ==
    \E ci \in ControllerIndexes : \E t \in Targets : TriggerPressed(ci, t)

TriggerReleasedStep == \E ci \in ControllerIndexes : TriggerReleased(ci)

SelectStartStep == \E ci \in ControllerIndexes : \E t \in Targets : OnSelectStart(ci, t)

SelectEndStep == \E ci \in ControllerIndexes : OnSelectEnd(ci)

DisconnectStep == \E ci \in ControllerIndexes : OnControllerDisconnected(ci)

ConnectStep == \E ci \in ControllerIndexes : OnControllerConnected(ci)

MouseStep == \E t \in Targets : HandleMouseInteraction(t)

KeyStep == \E code \in KeyCodes : OnKeyDown(code)

\* ------------------------------------------------ input sources (derived)
\* The mouse pointer grabs with controllerIndex null.
Mouse == Null

Sources == ControllerIndexes \cup {Mouse}

\* The object source s holds: grabbedObject when grabbedController is s.
HeldBy(s) ==
    IF grabbedObject # Null /\ grabbedController = s THEN grabbedObject
    ELSE Null

\* A grabStart of source s that targets the spawned object o.
GrabStart(s, o) ==
    IF s = Mouse THEN HandleMouseInteraction(Interactable(o))
    ELSE OnSelectStart(s, Interactable(o))

\* ============================================ simplified A-Frame workshop
\* A pending setTimeout callback: what it does, the entity it closes over and
\* the time left until it is due, in units of UnitMs.
Timer(kind, el, left) == [kind |-> kind, el |-> el, left |-> left]

DeleteDelay == DeleteDelayMs \div UnitMs

ClearRemoveDelay == ClearRemoveDelayMs \div UnitMs

\* setTimeout(callback, left): callbacks run in the order of their due times,
\* and callbacks due at the same time in the order of their registration, so
\* the new callback goes behind every pending one that is due no later.
RECURSIVE SetTimeout(_, _)
SetTimeout(ts, t) ==
    IF ts = <<>> THEN <<t>>
    ELSE IF Head(ts).left <= t.left THEN <<Head(ts)>> \o SetTimeout(Tail(ts), t)
    ELSE <<t>> \o ts

AFrameInit ==
    /\ objectCounter = 0
    /\ isVRMode = FALSE
    /\ deleteMode = FALSE
    /\ selectedObject = Null
    /\ statsObjects = 0
    /\ domObjects = {}
    /\ timers = <<>>

\* document.querySelectorAll('.interactive-object'), in document order:
\* entities are appended to the scene in spawn order.
RECURSIVE InDocumentOrder(_)
InDocumentOrder(S) ==
    IF S = {} THEN <<>>
    ELSE LET m == CHOOSE x \in S : \A y \in S : x <= y
         IN <<m>> \o InDocumentOrder(S \ {m})

\* spawnInteractiveObject(shapeData, position)
SpawnInteractiveObject ==
    /\ objectCounter < MaxEntities
    /\ objectCounter' = objectCounter + 1
    /\ domObjects' = domObjects \cup {objectCounter + 1}
    /\ statsObjects' = statsObjects + 1
    /\ UNCHANGED <<isVRMode, deleteMode, selectedObject, timers>>

\* toggleDeleteMode()
AToggleDeleteMode ==
    /\ deleteMode' = ~deleteMode
    /\ UNCHANGED <<objectCounter, isVRMode, selectedObject, statsObjects,
                   domObjects, timers>>

\* interactive-object.deleteObject(): starts the shrink animation and
\* registers the removal callback.
ADeleteObject(el) ==
    /\ Len(timers) < MaxTimers
    /\ timers' = SetTimeout(timers, Timer("delete", el, DeleteDelay))
    /\ UNCHANGED <<objectCounter, isVRMode, deleteMode, selectedObject,
                   statsObjects, domObjects>>

\* interactive-object.selectObject()
SelectObject(el) ==
    /\ selectedObject' = el
    /\ UNCHANGED <<objectCounter, isVRMode, deleteMode, statsObjects,
                   domObjects, timers>>

\* interactive-object.onClick(evt)
AOnClick(el) ==
    /\ el \in domObjects
    /\ IF deleteMode THEN ADeleteObject(el) ELSE SelectObject(el)

\* interactive-object.onGrabStart(evt)
AOnGrabStart(el) ==
    /\ el \in domObjects
    /\ IF deleteMode THEN ADeleteObject(el) ELSE SelectObject(el)

\* interactive-object.onGrabEnd(evt): resets the emissive colour only.
AOnGrabEnd(el) ==
    /\ el \in domObjects
    /\ UNCHANGED aframeVars

\* scene 'enter-vr' / 'exit-vr' listeners
OnEnterVR ==
    /\ ~isVRMode
    /\ isVRMode' = TRUE
    /\ UNCHANGED <<objectCounter, deleteMode, selectedObject, statsObjects,
                   domObjects, timers>>

OnExitVR ==
    /\ isVRMode
    /\ isVRMode' = FALSE
    /\ UNCHANGED <<objectCounter, deleteMode, selectedObject, statsObjects,
                   domObjects, timers>>

\* objects.forEach of clearAllObjects from index k on: the shrink callback of
\* entity objs[k] is registered with a delay of (k-1)*50 ms.
RECURSIVE ShrinkTimers(_, _, _)
ShrinkTimers(ts, objs, k) ==
    IF k > Len(objs) THEN ts
    ELSE ShrinkTimers(SetTimeout(ts, Timer("shrink", objs[k], k - 1)), objs, k + 1)

\* clearAllObjects()
ClearAllObjects ==
    LET objs == InDocumentOrder(domObjects) IN
    IF Len(objs) = 0 THEN UNCHANGED aframeVars
    ELSE /\ Len(timers) + Len(objs) + 1 <= MaxTimers
         /\ timers' = SetTimeout(ShrinkTimers(timers, objs, 1),
                                 Timer("reset", Null, Len(objs) + ClearRemoveDelay))
         /\ UNCHANGED <<objectCounter, isVRMode, deleteMode, selectedObject,
                        statsObjects, domObjects>>

KeyNames == {"1", "delete", "ctrl-c", "other"}

\* document 'keydown' listener
AOnKeyDown(key) ==
    IF isVRMode THEN UNCHANGED aframeVars
    ELSE IF key = "1" THEN SpawnInteractiveObject
    ELSE IF key = "delete" THEN AToggleDeleteMode
    ELSE IF key = "ctrl-c" THEN ClearAllObjects
    ELSE UNCHANGED aframeVars

\* controller buttons (setupControllers) and the VR menu (cursor-listener)
OnGripDown == SpawnInteractiveObject

OnAButtonDown == AToggleDeleteMode

OnBButtonDown == ClearAllObjects

\* performance-monitor.tick, once a second
PerformanceTick ==
    /\ statsObjects' = Cardinality(domObjects)
    /\ UNCHANGED <<objectCounter, isVRMode, deleteMode, selectedObject,
                   domObjects, timers>>

\* DeleteCallback without its parentNode test.
DeleteCallbackUnguarded(el) ==
    /\ domObjects' = domObjects \ {el}
    /\ statsObjects' = statsObjects - 1

\* The callback of interactive-object.deleteObject runs.
DeleteCallback(el) ==
    IF el \in domObjects
    THEN /\ domObjects' = domObjects \ {el}
         /\ statsObjects' = statsObjects - 1
    ELSE UNCHANGED <<domObjects, statsObjects>>

\* The inner callback of clearAllObjects runs.
ClearRemoveCallback(el) ==
    /\ domObjects' = domObjects \ {el}
    /\ UNCHANGED statsObjects

\* The event loop runs the next due setTimeout callback.
FireTimer ==
    /\ timers # <<>>
    /\ Head(timers).left <= 0
    /\ LET t == Head(timers) IN
       IF t.kind = "delete" THEN
            /\ DeleteCallback(t.el)
            /\ timers' = Tail(timers)
            /\ UNCHANGED <<objectCounter, isVRMode, deleteMode, selectedObject>>
       ELSE IF t.kind = "shrink" THEN
            /\ timers' = SetTimeout(Tail(timers),
                                    Timer("remove", t.el, ClearRemoveDelay))
            /\ UNCHANGED <<objectCounter, isVRMode, deleteMode, selectedObject,
                           statsObjects, domObjects>>
       ELSE IF t.kind = "remove" THEN
            /\ ClearRemoveCallback(t.el)
            /\ timers' = Tail(timers)
            /\ UNCHANGED <<objectCounter, isVRMode, deleteMode, selectedObject>>
       ELSE /\ statsObjects' = 0
            /\ selectedObject' = Null
            /\ timers' = Tail(timers)
            /\ UNCHANGED <<objectCounter, isVRMode, deleteMode, domObjects>>

\* UnitMs milliseconds pass; a due callback runs before time goes on.
TimePasses ==
    /\ timers # <<>>
    /\ \A i \in 1..Len(timers) : timers[i].left > 0
    /\ timers' = [i \in 1..Len(timers) |->
                    [timers[i] EXCEPT !.left = timers[i].left - 1]]
    /\ UNCHANGED <<objectCounter, isVRMode, deleteMode, selectedObject,
                   statsObjects, domObjects>>

\* UnitMs milliseconds pass while the event loop is busy or throttled: a due
\* callback waits, no longer than MaxLate.
TimePassesLate ==
    /\ timers # <<>>
    /\ \E i \in 1..Len(timers) : timers[i].left <= 0
    /\ \A i \in 1..Len(timers) : timers[i].left > 0 - MaxLate
    /\ timers' = [i \in 1..Len(timers) |->
                    [timers[i] EXCEPT !.left = timers[i].left - 1]]
    /\ UNCHANGED <<objectCounter, isVRMode, deleteMode, selectedObject,
                   statsObjects, domObjects>>

ClickStep == \E el \in Entities : AOnClick(el)

GrabStartStep == \E el \in Entities : AOnGrabStart(el)

GrabEndStep == \E el \in Entities : AOnGrabEnd(el)

AKeyStep == \E key \in KeyNames : AOnKeyDown(key)

AFrameNext ==
    \/ ClickStep
    \/ GrabStartStep
    \/ GrabEndStep
    \/ AKeyStep
    \/ OnGripDown
    \/ OnAButtonDown
    \/ OnBButtonDown
    \/ OnEnterVR
    \/ OnExitVR
    \/ PerformanceTick
    \/ FireTimer
    \/ TimePasses

\* ------------------------------------- A-Frame workshop: the materials
\* The handlers of interactive-object write the material of their entity and
\* read none: SpecAFrame leaves the materials out, SpecAFrameLook runs the
\* same handlers with them. setAttribute('material', 'emissive: ...') sets
\* the properties it names and keeps the others.
SpawnColor == "spawn"

DeleteColor == "#ff4444"

NormalMaterial == [color |-> SpawnColor, emissive |-> "#000000"]

LookInit ==
    /\ material = [el \in Entities |-> NormalMaterial]
    /\ hovered = Null

SetEmissive(m, el, e) == [m EXCEPT ![el].emissive = e]

\* spawnInteractiveObject: material 'color: shapeData.color'.
SpawnLook ==
    /\ SpawnInteractiveObject
    /\ material' = [material EXCEPT ![objectCounter + 1] = NormalMaterial]
    /\ UNCHANGED hovered

\* selectObject: the emissive colours it sets.
SelectObjectMaterial(el) ==
    material' = SetEmissive(IF selectedObject # Null /\ selectedObject # el
                            THEN SetEmissive(material, selectedObject, "#000000")
                            ELSE material,
                            el, "#222222")

\* interactive-object.onClick(evt)
OnClickLook(el) ==
    /\ AOnClick(el)
    /\ IF deleteMode THEN UNCHANGED material ELSE SelectObjectMaterial(el)
    /\ UNCHANGED hovered

\* interactive-object.onGrabStart(evt)
OnGrabStartLook(el) ==
    /\ AOnGrabStart(el)
    /\ IF deleteMode THEN UNCHANGED material
       ELSE material' = SetEmissive(material, el, "#333333")
    /\ UNCHANGED hovered

\* interactive-object.onGrabEnd(evt)
OnGrabEndLook(el) ==
    /\ AOnGrabEnd(el)
    /\ material' = SetEmissive(material, el, "#000000")
    /\ UNCHANGED hovered

\* interactive-object.onHover(): 'mouseenter' on el
OnHover(el) ==
    /\ el \in domObjects
    /\ hovered = Null
    /\ hovered' = el
    /\ material' = IF deleteMode
                   THEN [material EXCEPT ![el] = [color |-> DeleteColor,
                                                  emissive |-> "#440000"]]
                   ELSE SetEmissive(material, el, "#111111")
    /\ UNCHANGED aframeVars

\* interactive-object.onHoverEnd(): 'mouseleave' on el
OnHoverEnd(el) ==
    /\ hovered = el
    /\ hovered' = Null
    /\ IF ~deleteMode THEN material' = SetEmissive(material, el, "#000000")
       ELSE UNCHANGED material
    /\ UNCHANGED aframeVars

ClickLookStep == \E el \in Entities : OnClickLook(el)

GrabStartLookStep == \E el \in Entities : OnGrabStartLook(el)

GrabEndLookStep == \E el \in Entities : OnGrabEndLook(el)

HoverStep == \E el \in Entities : OnHover(el)

HoverEndStep == \E el \in Entities : OnHoverEnd(el)

\* ================================================= spawn-button workshop
\* src/unnamed/part_000 keeps objectCounter, isVRMode and
\* performanceStats.objects in globals of the same names as the simplified
\* workshop, and its only setTimeout callback, the delete zone's, is the
\* guarded removal that decrements performanceStats.objects.
WorkshopInit == sceneLoaded = FALSE

\* n calls of spawnInteractiveObject(spawnData, position) in one event.
SpawnObjects(n) ==
    /\ objectCounter + n <= MaxEntities
    /\ objectCounter' = objectCounter + n
    /\ domObjects' = domObjects \cup ((objectCounter + 1)..(objectCounter + n))
    /\ statsObjects' = statsObjects + n
    /\ UNCHANGED <<isVRMode, deleteMode, selectedObject, timers>>

\* scene 'loaded' listener: setupSpawnButtons gives every '.spawn-button' the
\* object-spawner component, whose init adds a click listener, and then adds
\* a click listener of its own.
OnSceneLoaded ==
    /\ ~sceneLoaded
    /\ sceneLoaded' = TRUE
    /\ UNCHANGED aframeVars

\* The data-object-type attribute of a spawn button: a type of
\* spawnableObjects, another string, or no attribute.
ButtonTypes == {"known", "unknown", "absent"}

\* object-spawner.spawnObject: the type is data-object-type or, without the
\* attribute, the schema's default 'box'; an unknown type spawns nothing.
SpawnObjectSpawns(type) == IF type = "unknown" THEN 0 ELSE 1

\* The click listener setupSpawnButtons adds: spawns when data-object-type is
\* a type of spawnableObjects.
DirectClickSpawns(type) == IF type = "known" THEN 1 ELSE 0

\* A click on a spawn button with the given data-object-type: the button's
\* click listeners run in the order they were added.
OnSpawnButtonClick(type) ==
    /\ sceneLoaded
    /\ SpawnObjects(SpawnObjectSpawns(type) + DirectClickSpawns(type))
    /\ UNCHANGED sceneLoaded

WorkshopKeys == {"1", "5", "6", "p"}

\* document 'keydown' listener: '1'..'5' spawn spawnableObjects[0..4]; 'p' and
\* 'd' toggle displays.
WOnKeyDown(key) ==
    /\ IF ~isVRMode /\ key \in {"1", "5"} THEN SpawnObjects(1)
       ELSE UNCHANGED aframeVars
    /\ UNCHANGED sceneLoaded

\* delete-zone.onCollision(evt) with an interactive object of the scene
OnCollision(el) ==
    /\ sceneLoaded
    /\ el \in domObjects
    /\ Len(timers) < MaxTimers
    /\ timers' = SetTimeout(timers, Timer("delete", el, DeleteDelay))
    /\ UNCHANGED <<objectCounter, isVRMode, deleteMode, selectedObject,
                   statsObjects, domObjects, sceneLoaded>>

\* performance-tracker.tick, once a second
TrackerTick ==
    /\ statsObjects' = Cardinality(domObjects)
    /\ UNCHANGED <<objectCounter, isVRMode, deleteMode, selectedObject,
                   domObjects, timers, sceneLoaded>>

SpawnButtonClickStep == \E type \in ButtonTypes : OnSpawnButtonClick(type)

WKeyStep == \E key \in WorkshopKeys : WOnKeyDown(key)

CollideStep == \E el \in Entities : OnCollision(el)

\* ==================================================== two-hand scaling
\* Scales are fractions <<num, den>> of tenths; distances are in tenths.
InitialScales == {5, 10, 11}

FracLeq(a, b) == a[1] * b[2] <= b[1] * a[2]

FracEq(a, b) == a[1] * b[2] = b[1] * a[2]

FracTimes(n, a) == <<n * a[1], a[2]>>

\* ScaleFactor without the upper limit of the clamp.
ScaleFactorNoUpperClamp(d, d0) ==
    IF 10 * d < d0 THEN <<1, 10>> ELSE <<d, d0>>

\* scaleFactor = clamp(distance(p0, p1) / initialInterHandDistance, 0.1, 3.0)
ScaleFactor(d, d0) ==
    IF 10 * d < d0 THEN <<1, 10>>
    ELSE IF d > 3 * d0 THEN <<3, 1>>
    ELSE <<d, d0>>

\* newScale = initialScale * scaleFactor
NewScale(s0, d, d0) == FracTimes(s0, ScaleFactor(d, d0))

ScaleInit ==
    /\ session = {}
    /\ handDistance = 0
    /\ objectScale = <<10, 1>>

\* The second source grabs the object the first one holds: the session
\* records the distance between the sources and the object's scale.
TwoHandStart(d0, s0) ==
    /\ session = {}
    /\ session' = {[initialInterHandDistance |-> d0, initialScale |-> s0]}
    /\ handDistance' = d0
    /\ objectScale' = <<s0, 1>>

\* Per-frame two-hand update with the sources d apart.
TwoHandUpdate(d) ==
    /\ session # {}
    /\ handDistance' = d
    /\ \E ths \in session :
          objectScale' = NewScale(ths.initialScale, d,
                                  ths.initialInterHandDistance)
    /\ UNCHANGED session

\* Either source releases: the session is destroyed.
TwoHandEnd ==
    /\ session # {}
    /\ session' = {}
    /\ UNCHANGED <<handDistance, objectScale>>

TwoHandStartStep ==
    \E d0 \in 1..MaxDist : \E s0 \in InitialScales : TwoHandStart(d0, s0)

TwoHandUpdateStep == \E d \in 0..MaxDist : TwoHandUpdate(d)

ScaleNext ==
    \/ TwoHandStartStep
    \/ TwoHandUpdateStep
    \/ TwoHandEnd

\* ======================================================== specifications
Init == ThreeInit /\ AFrameInit /\ LookInit /\ WorkshopInit /\ ScaleInit

ThreeNext ==
    \/ SelectStartStep
    \/ SelectEndStep
    \/ DisconnectStep
    \/ ConnectStep
    \/ OnSessionStart
    \/ OnSessionEnd
    \/ MouseStep
    \/ OnCreateButtonClick
    \/ OnDeleteToggleClick
    \/ KeyStep
    \/ AnimateFrame
    \/ ClockTick

\* The Three.js variant with its controllers at rest.
Next ==
    ThreeNext
    /\ UNCHANGED <<controllerPose, dispatch, aframeVars, lookVars, sceneLoaded,
                   scaleVars>>

Spec == Init /\ [][Next]_vars

\* What a step of SpecMotion leaves alone besides the Three.js variant, and
\* the objects a session allocates: MaxMoved.
MotionFrame ==
    /\ nextHandle' <= MaxMoved + 1
    /\ UNCHANGED <<dispatch, aframeVars, lookVars, sceneLoaded, scaleVars>>

\* A handler of VRObjectCreator runs: the controllers stay as they are.
HandlerFrame == MotionFrame /\ UNCHANGED controllerPose

\* The handlers that grab, release, create and delete, and the frame loop,
\* while the controllers move. Left out are
\* the steps that change only inputMethod or the clock.
NextMotion ==
    \/ SelectStartStep /\ HandlerFrame
    \/ SelectEndStep /\ HandlerFrame
    \/ DisconnectStep /\ HandlerFrame
    \/ MouseStep /\ HandlerFrame
    \/ OnCreateButtonClick /\ HandlerFrame
    \/ OnDeleteToggleClick /\ HandlerFrame
    \/ KeyStep /\ HandlerFrame
    \/ AnimateFrame /\ HandlerFrame
    \/ ControllerMovesStep /\ MotionFrame

SpecMotion == Init /\ [][NextMotion]_vars

\* The desktop input of VRObjectCreator (keyboard, mouse, buttons) and
\* the steps that change inputMethod.
DesktopFrame ==
    UNCHANGED <<controllerPose, dispatch, aframeVars, lookVars, sceneLoaded,
                scaleVars>>

NextDesktop ==
    \/ KeyStep /\ DesktopFrame
    \/ MouseStep /\ DesktopFrame
    \/ OnCreateButtonClick /\ DesktopFrame
    \/ OnDeleteToggleClick /\ DesktopFrame
    \/ ConnectStep /\ DesktopFrame
    \/ OnSessionStart /\ DesktopFrame
    \/ OnSessionEnd /\ DesktopFrame

SpecDesktop == Init /\ [][NextDesktop]_vars

\* The Three.js variant with its retry button, controllers at rest: the
\* controller events with their listeners, one listener call a step.
RetryFrame ==
    UNCHANGED <<controllerPose, aframeVars, lookVars, sceneLoaded, scaleVars>>

NextRetry ==
    \/ RetryWebXR /\ RetryFrame
    \/ TriggerPressedStep /\ RetryFrame
    \/ TriggerReleasedStep /\ RetryFrame
    \/ RunListener /\ RetryFrame

SpecRetry == Init /\ [][NextRetry]_vars

NextAFrame ==
    AFrameNext
    /\ UNCHANGED <<threeVars, dispatch, lookVars, sceneLoaded, scaleVars>>

\* The page of the A-Frame workshop: the Three.js variant is not running.
InitAFrame == Init /\ controllers = <<>>

SpecAFrame == InitAFrame /\ [][NextAFrame]_vars

\* The A-Frame workshop with the materials of its entities: the pointer, the
\* grab, the spawn, the mode toggle and clearAllObjects with their timers.
LookFrame == UNCHANGED <<threeVars, dispatch, sceneLoaded, scaleVars>>

NextAFrameLook ==
    \/ SpawnLook /\ LookFrame
    \/ ClickLookStep /\ LookFrame
    \/ GrabStartLookStep /\ LookFrame
    \/ GrabEndLookStep /\ LookFrame
    \/ HoverStep /\ LookFrame
    \/ HoverEndStep /\ LookFrame
    \/ AToggleDeleteMode /\ UNCHANGED lookVars /\ LookFrame
    \/ ClearAllObjects /\ UNCHANGED lookVars /\ LookFrame
    \/ FireTimer /\ UNCHANGED lookVars /\ LookFrame
    \/ TimePasses /\ UNCHANGED lookVars /\ LookFrame

SpecAFrameLook == InitAFrame /\ [][NextAFrameLook]_vars

\* The A-Frame workshop on an event loop that runs callbacks late.
NextAFrameLate ==
    (AFrameNext \/ TimePassesLate)
    /\ UNCHANGED <<threeVars, dispatch, lookVars, sceneLoaded, scaleVars>>

SpecAFrameLate == InitAFrame /\ [][NextAFrameLate]_vars

NextScale ==
    ScaleNext
    /\ UNCHANGED <<threeVars, dispatch, aframeVars, lookVars, sceneLoaded>>

SpecScale == InitAFrame /\ [][NextScale]_vars

\* The page of the spawn-button workshop.
WorkshopFrame == UNCHANGED <<threeVars, dispatch, lookVars, scaleVars>>

NextWorkshop ==
    \/ OnSceneLoaded /\ WorkshopFrame
    \/ SpawnButtonClickStep /\ WorkshopFrame
    \/ WKeyStep /\ WorkshopFrame
    \/ CollideStep /\ WorkshopFrame
    \/ TrackerTick /\ WorkshopFrame
    \/ OnEnterVR /\ UNCHANGED sceneLoaded /\ WorkshopFrame
    \/ OnExitVR /\ UNCHANGED sceneLoaded /\ WorkshopFrame
    \/ FireTimer /\ UNCHANGED sceneLoaded /\ WorkshopFrame
    \/ TimePasses /\ UNCHANGED sceneLoaded /\ WorkshopFrame

SpecWorkshop == InitAFrame /\ [][NextWorkshop]_vars

\* ======================================================== claims, Spec
\* An event of the source that holds the object: Escape for the mouse, the
\* selectend or the disconnect of the holding controller.
EventOfHolder ==
    IF grabbedController = Mouse THEN OnKeyDown("Escape")
    ELSE \/ OnSelectEnd(grabbedController)
         \/ OnControllerDisconnected(grabbedController)

\* C29: every grab can be ended: in every state with a held object an event
\* of the holding source is possible after which nothing is held and the
\* highlight of the object is off.
C29_EveryGrabCanBeEnded ==
    grabbedObject # Null
      => ENABLED (/\ EventOfHolder
                  /\ grabbedObject' = Null
                  /\ grabbedController' = Null
                  /\ emissive'[grabbedObject] = EmissiveNone)

\* C1: after a delete no source's held-object reference (grabbedObject /
\* grabbedController) refers to an object that is no longer in the live
\* object list, also when the object was held at the moment of the delete.
C1_NoHeldDeletedObject ==
    \A s \in Sources : HeldBy(s) # Null => HeldBy(s) \in Range(objects)

\* C2: in delete mode a grabStart that targets a spawned object destroys the
\* object instead of grabbing it, and the issuing source's held-object
\* reference is empty afterwards.
C2_DeleteModeGrabStartDeletes ==
    [][\A s \in Sources : \A o \in Handles :
          (isDeleteMode /\ o \in Range(objects) /\ GrabStart(s, o))
            => (o \notin Range(objects') /\ HeldBy(s)' = Null)]_vars

\* C3: the live object count never exceeds the configured maximum (a spawn
\* at the maximum is rejected and leaves the count unchanged).
C3_CountWithinMaximum == Len(objects) <= MaxObjects

\* C4: a source's held-object reference is never assigned a new object while
\* it is non-empty; a release (the reference becoming empty) comes first.
C4_NoGrabOverHeldObject ==
    [][\A s \in Sources :
          HeldBy(s) # Null => HeldBy(s)' \in {Null, HeldBy(s)}]_vars

\* C5: with delete mode off, when a second distinct source issues grabStart
\* on an object another source holds, the object is then held by both
\* sources: the first source keeps holding it.
C5_SecondGrabMakesDualHeld ==
    [][\A s1 \in Sources : \A s2 \in Sources \ {s1} : \A o \in Handles :
          (~isDeleteMode /\ HeldBy(s1) = o /\ o \in Range(objects)
             /\ GrabStart(s2, o))
            => (HeldBy(s1)' = o /\ HeldBy(s2)' = o)]_vars

\* C9: ids are unique and monotonically assigned: of two live objects the
\* later-spawned one (later in this.objects) has the greater userData.id.
C9_IdsUniqueAndIncreasing ==
    \A i \in 1..Len(objects) : \A j \in 1..Len(objects) :
        i < j => userDataId[objects[i]] < userDataId[objects[j]]

\* C20: a grab by a source that already holds an object releases that
\* object first, so its highlight is reset: of the live objects at most the
\* held one carries the grabbed highlight.
C20_OnlyHeldObjectHighlighted ==
    \A o \in Range(objects) :
        emissive[o] = EmissiveGrabbed => grabbedObject = o

\* ================================================== claims, SpecAFrame

\* The callback of a deleteObject call on entity el is the step taken.
DeleteCallbackRuns(el) ==
    /\ timers # <<>>
    /\ Head(timers).left <= 0
    /\ Head(timers).kind = "delete"
    /\ Head(timers).el = el
    /\ timers' = Tail(timers)

\* C10: delete of an entity that is already removed is a no-op (scene,
\* object count, counter, selection and mode stay as they are), and the
\* delete of an attached entity removes it and decrements the object count
\* by one: several delete requests remove and count an entity once.
C10_RepeatedDeleteRemovesOnce ==
    [][\A el \in Entities :
          DeleteCallbackRuns(el) =>
            IF el \in domObjects
            THEN /\ domObjects' = domObjects \ {el}
                 /\ statsObjects' = statsObjects - 1
                 /\ UNCHANGED <<objectCounter, selectedObject, deleteMode>>
            ELSE UNCHANGED <<domObjects, statsObjects, objectCounter,
                             selectedObject, deleteMode>>]_vars

\* A delete callback is due for an entity that an earlier delete removed.
C10_Witness ==
    /\ timers # <<>>
    /\ Head(timers).kind = "delete"
    /\ Head(timers).left <= 0
    /\ Head(timers).el \notin domObjects
    /\ Head(timers).el <= objectCounter
    /\ statsObjects = Cardinality(domObjects)

\* A delete of entity el has been requested and its delayed removal is
\* pending: the timer of deleteObject, or the timers of clearAllObjects.
DeleteRequested(el) ==
    \E i \in 1..Len(timers) :
        timers[i].el = el /\ timers[i].kind \in {"delete", "shrink", "remove"}

\* C11: logical deletion is immediate: the step that requests the delete of
\* an entity takes it out of the object count, and while its removal is
\* pending no click or grab makes it the selected object.
C11_DeletionIsImmediate ==
    [][\A el \in Entities :
          /\ (el \in domObjects /\ ~DeleteRequested(el) /\ DeleteRequested(el)')
               => statsObjects' < statsObjects
          /\ (el \in domObjects /\ DeleteRequested(el))
               => (selectedObject' = el => selectedObject = el)]_vars

\* ================================================== claims, SpecMotion

\* The grab of the spawned object o by the registered controller ci is the
\* step taken.
ControllerGrabs(ci, o) ==
    /\ Registered(ci)
    /\ ~isDeleteMode
    /\ o \in Range(objects)
    /\ OnSelectStart(ci, Interactable(o))

\* A frame of the animation loop runs while a registered controller holds.
HeldFrame ==
    /\ grabbedObject # Null
    /\ Registered(grabbedController)
    /\ AnimateFrame

\* C12: grabOffset is the object position minus the controller position at
\* the grab (so a frame right after the grab leaves the position as it is),
\* only a grab by a controller changes it, and every frame puts the held
\* object at the controller position plus grabOffset, lifted to the floor
\* height when that is below it.
C12_PositionIsControllerPlusOffset ==
    [][/\ \A ci \in ControllerIndexes : \A o \in Handles :
             ControllerGrabs(ci, o)
               => /\ grabOffset'.x + controllerPose[ci].x = position[o].x
                  /\ grabOffset'.y + controllerPose[ci].y = position[o].y
                  /\ position' = position
       /\ grabOffset' # grabOffset
            => \E ci \in ControllerIndexes : \E o \in Handles :
                   ControllerGrabs(ci, o)
       /\ HeldFrame
            => LET c == controllerPose[grabbedController]
                   p == position'[grabbedObject]
               IN  /\ p.x = c.x + grabOffset.x
                   /\ p.y = IF c.y + grabOffset.y < FloorY THEN FloorY
                            ELSE c.y + grabOffset.y
                   /\ (c.x + grabOffset.x = position[grabbedObject].x
                         /\ c.y + grabOffset.y = position[grabbedObject].y)
                        => position' = position]_vars

\* A controller that has left its rest pose holds a moved object just behind
\* a frame, with a grabOffset other than zero.
C12_Witness ==
    /\ grabbedObject \in Range(objects)
    /\ Registered(grabbedController)
    /\ controllerPose[grabbedController] # RestPose
    /\ grabOffset # ZeroVector
    /\ position[grabbedObject] # SpawnPosition
    /\ position[grabbedObject] = KeepAboveGround(CarriedPosition)

\* C13: a frame leaves the held object at the floor height or above, at
\* exactly the floor height when the controller position plus grabOffset is
\* below it; lifting the object changes neither its horizontal coordinate
\* nor grabOffset; and every object of the live list is at the floor height
\* or above.
C13_HeldObjectStaysAboveFloor ==
    [][/\ \A o \in Range(objects') : position'[o].y >= FloorY
       /\ HeldFrame
            => /\ position'[grabbedObject].y >= FloorY
               /\ CarriedPosition.y < FloorY
                    => /\ position'[grabbedObject].y = FloorY
                       /\ position'[grabbedObject].x = CarriedPosition.x
               /\ grabOffset' = grabOffset]_vars

\* A frame has lifted a live object to the floor height: its controller is
\* lower than grabOffset allows, and has carried it sideways.
C13_Witness ==
    /\ grabbedObject \in Range(objects)
    /\ Registered(grabbedController)
    /\ CarriedPosition.y < FloorY
    /\ CarriedPosition.x # SpawnPosition.x
    /\ position[grabbedObject] = [x |-> CarriedPosition.x, y |-> FloorY]

\* C14: a frame gives the held object the orientation the controller has in
\* that frame, whatever orientation the object had at the grab
\* (grabRotationOffset), and turns no other object.
C14_OrientationIsControllers ==
    [][HeldFrame
         => /\ quaternion'[grabbedObject] = controllerPose[grabbedController].q
            /\ \A o \in Handles \ {grabbedObject} :
                   quaternion'[o] = quaternion[o]]_vars

\* A held object has its controller's orientation although it was grabbed
\* in another one, which grabRotationOffset still records.
C14_Witness ==
    /\ grabbedObject \in Range(objects)
    /\ Registered(grabbedController)
    /\ grabRotationOffset # IdentityQuaternion
    /\ quaternion[grabbedObject] = controllerPose[grabbedController].q
    /\ quaternion[grabbedObject] # grabRotationOffset

\* C15: a selectend or a disconnect of a controller that is not the holder
\* leaves the held object, the holder, grabOffset and every highlight as
\* they are; a selectend or a disconnect of the holder empties the
\* held-object reference.
C15_GrabEndOfNonHolderIsNoOp ==
    [][\A ci \in ControllerIndexes :
          /\ (grabbedController # ci
                /\ (OnSelectEnd(ci) \/ OnControllerDisconnected(ci)))
               => UNCHANGED <<grabbedObject, grabbedController, grabOffset,
                              emissive>>
          /\ (grabbedController = ci
                /\ (OnSelectEnd(ci) \/ OnControllerDisconnected(ci)))
               => (grabbedObject' = Null /\ grabbedController' = Null)]_vars

\* Controller 0 still holds a highlighted object, its trigger down, after
\* delete mode was switched on behind its grab; the trigger of controller 1
\* is up.
C15_Witness ==
    /\ grabbedObject \in Range(objects)
    /\ grabbedController = 0
    /\ 0 \in triggerDown
    /\ 1 \notin triggerDown
    /\ isDeleteMode
    /\ emissive[grabbedObject] = EmissiveGrabbed
    /\ grabOffset # ZeroVector

\* The object o was created and has been deleted.
Destroyed(o) == o < nextHandle /\ o \notin Range(objects)

\* C16: a deleted object never returns to the live list and never becomes
\* the held object, and no later step (a frame, a release) changes its
\* position, its orientation or its material.
C16_DestroyedIsTerminal ==
    [][\A o \in Handles :
          Destroyed(o)
            => /\ o \notin Range(objects')
               /\ grabbedObject' = o => grabbedObject = o
               /\ position'[o] = position[o]
               /\ quaternion'[o] = quaternion[o]
               /\ emissive'[o] = emissive[o]]_vars

\* C17: performanceStats.objects is never negative, and when no timer is
\* pending it is the number of interactive objects attached to the scene.
C17_CountTracksLiveObjects ==
    /\ statsObjects >= 0
    /\ timers = <<>> => statsObjects = Cardinality(domObjects)

\* C18: a selectstart for a controller index at which this.controllers has
\* no controller changes no field of VRObjectCreator: no grab, no delete, no
\* spawn, no change of mode.
C18_UnregisteredSelectStartIgnored ==
    [][\A ci \in ControllerIndexes : \A t \in Targets :
          (~Registered(ci) /\ OnSelectStart(ci, t))
            => UNCHANGED creatorVars]_vars

\* No controller is registered, and a ray would hit a live object that
\* nothing holds: a handled selectstart would grab it.
C18_Witness ==
    /\ controllers = <<>>
    /\ objects # <<>>
    /\ ~isDeleteMode
    /\ grabbedObject = Null

\* The delete button of the menu.
DeleteButton == [type |-> "deleteButton", obj |-> Null]

\* A step takes one of the ways to toggleDeleteMode of the Three.js variant:
\* the desktop toggle button, the delete button of the menu hit by the mouse
\* or by a controller, the D key outside VR.
TogglePath ==
    \/ OnDeleteToggleClick
    \/ HandleMouseInteraction(DeleteButton)
    \/ \E ci \in ControllerIndexes :
           Registered(ci) /\ OnSelectStart(ci, DeleteButton)
    \/ ~InputIsVR /\ OnKeyDown("KeyD")

\* C19: every way to toggle inverts isDeleteMode (so two toggles in a row
\* restore it) and changes neither the live objects, nor the number of
\* objects created, nor the grab state; and nothing else changes
\* isDeleteMode.
C19_ToggleFlipsOnlyTheMode ==
    [][/\ TogglePath
            => /\ isDeleteMode' = ~isDeleteMode
               /\ UNCHANGED <<objects, sceneObjects, nextHandle,
                              grabbedObject, grabbedController, grabOffset,
                              grabRotationOffset, emissive, position,
                              quaternion>>
       /\ isDeleteMode' # isDeleteMode => TogglePath]_vars

\* Delete mode was switched on while an object is held and highlighted.
C19_Witness ==
    /\ isDeleteMode
    /\ grabbedObject \in Range(objects)
    /\ emissive[grabbedObject] = EmissiveGrabbed

\* C21: grabOffset holds nothing of an earlier grab: while no object is held
\* it is the zero vector.
C21_GrabOffsetClearedAtGrabEnd ==
    grabbedObject = Null => grabOffset = ZeroVector

\* The number of pending callbacks of one of the kinds.
PendingOf(kinds) ==
    Cardinality({i \in 1..Len(timers) : timers[i].kind \in kinds})

\* The callback of kind `kind` at the head of the queue is the step taken.
CallbackRuns(kind) ==
    /\ timers # <<>>
    /\ Head(timers).left <= 0
    /\ Head(timers).kind = kind
    /\ FireTimer

\* C22: clearAllObjects with no object changes nothing; with n objects it
\* registers the shrink of object i (0-based, in document order) at i*50 ms
\* and the reset at n*50 + 200 ms; a shrink registers its removal 200 ms
\* later, behind the removals of the objects before it; a removal detaches
\* its object; and when the reset of the only clearAllObjects under way
\* runs, every removal has run: no shrink and no removal is pending.
C22_ClearAllEmptiesInOrder ==
    [][/\ (domObjects = {} /\ ClearAllObjects) => UNCHANGED aframeVars
       /\ (domObjects # {} /\ ClearAllObjects)
            => LET objs == InDocumentOrder(domObjects)
                   n == Len(objs)
               IN  /\ Len(timers') = Len(timers) + n + 1
                   /\ \E f \in [1..n -> 1..Len(timers')] :
                          /\ \A k \in 1..n :
                                 timers'[f[k]] = Timer("shrink", objs[k], k - 1)
                          /\ \A k \in 1..n : \A l \in 1..n :
                                 k < l => f[k] < f[l]
                   /\ \E i \in 1..Len(timers') :
                          timers'[i] = Timer("reset", Null, n + ClearRemoveDelay)
                   /\ domObjects' = domObjects
       /\ CallbackRuns("shrink")
            => \E i \in 1..Len(timers') :
                   /\ timers'[i] = Timer("remove", Head(timers).el, ClearRemoveDelay)
                   /\ \A j \in 1..Len(timers') :
                          timers'[j].kind = "remove" => j <= i
       /\ CallbackRuns("remove") => Head(timers).el \notin domObjects'
       /\ (CallbackRuns("reset") /\ PendingOf({"reset"}) = 1)
            => /\ PendingOf({"shrink", "remove"}) = 0
               /\ statsObjects' = 0
               /\ selectedObject' = Null]_vars

\* ================================================= claims, SpecDesktop
\* this.objects has no element twice.
NoDuplicates(s) == \A i, j \in 1..Len(s) : s[i] = s[j] => i = j

\* C28: this.objects, the spawned meshes of the scene and the displayed
\* count agree: the list has no duplicates, holds exactly the spawned meshes
\* of the scene, all of them created, and the count shown is its length; a
\* step changes list and scene only as one create (one new mesh at the end
\* of the list) or one delete (one mesh out of both).
C28_ObjectsSceneAndCountAgree ==
    /\ [](/\ NoDuplicates(objects)
          /\ Range(objects) = sceneObjects
          /\ sceneObjects \subseteq 1..(nextHandle - 1)
          /\ objectCountText = Len(objects))
    /\ [][\/ UNCHANGED <<objects, sceneObjects>>
          \/ /\ objects' = Append(objects, nextHandle)
             /\ sceneObjects' = sceneObjects \cup {nextHandle}
             /\ nextHandle \notin sceneObjects
             /\ nextHandle' = nextHandle + 1
          \/ \E o \in Range(objects) :
                /\ objects' = SpliceOut(objects, o)
                /\ sceneObjects' = sceneObjects \ {o}
                /\ Len(objects') = Len(objects) - 1]_vars

\* Objects were created and one that was not the last has been deleted.
C28_Witness ==
    /\ Len(objects) = 2
    /\ nextHandle = 4
    /\ objects[1] > 1
    /\ objectCountText = 2

\* A spawn key of onKeyDown.
SpawnKeys == {"KeyC", "KeyS", "KeyT"}

\* C25: while inputMethod contains 'vr' a keydown changes no state; outside
\* VR a spawn key creates exactly one object and changes nothing else.
C25_KeysSkippedInVR ==
    [][\A code \in KeyCodes :
          OnKeyDown(code)
            => IF InputIsVR THEN UNCHANGED vars
               ELSE code \in SpawnKeys
                      => /\ Len(objects') = Len(objects) + 1
                         /\ Cardinality(sceneObjects') = Cardinality(sceneObjects) + 1
                         /\ \A i \in 1..Len(objects) : objects'[i] = objects[i]
                         /\ UNCHANGED <<grabbedObject, grabbedController,
                                        isDeleteMode, inputMethod>>]_vars

\* A key is pressed in VR while an object is held and delete mode is off, and
\* there is room for another object.
C25_Witness ==
    /\ InputIsVR
    /\ grabbedObject # Null
    /\ nextHandle <= NumHandles
    /\ objects # <<>>

\* ============================================== claims, SpecAFrameLook
\* C26: hover is transient: the mouseleave that ends the hover of an attached
\* entity with no delete requested leaves it with its spawn colour and no
\* emissive colour, whatever deleteMode was at the mouseenter and is now.
C26_HoverIsTransient ==
    [][\A el \in Entities :
          (hovered = el /\ hovered' = Null
              /\ el \in domObjects /\ ~DeleteRequested(el))
            => material'[el] = NormalMaterial]_vars

\* The emissive colours selectObject and onGrabStart give the selection.
SelectionHighlights == {"#222222", "#333333"}

\* C27: selectedObject is null or an entity attached to the scene, and no
\* attached entity but selectedObject carries the selection highlight.
C27_SelectionIsLiveAndUnique ==
    /\ selectedObject # Null => selectedObject \in domObjects
    /\ \A el \in domObjects :
          material[el].emissive \in SelectionHighlights => el = selectedObject

\* C30: one grab slot: grabbedController names a source only while
\* grabbedObject names an object, the object held is a created mesh and the
\* holder is the mouse or one of the two controllers.
C30_SingleGrabSlot ==
    /\ grabbedController # Null => grabbedObject # Null
    /\ grabbedObject # Null => grabbedObject \in 1..(nextHandle - 1)
    /\ grabbedController \in Sources

\* A controller grabbed an object away from itself and the grab has ended.
C30_Witness ==
    /\ grabbedObject = Null
    /\ grabbedController = Null
    /\ grabOffset # ZeroVector

\* =================================================== claims, SpecRetry
\* C24: each controller is registered once and each selectstart is handled
\* once, however often 'Retry WebXR Detection' was used: this.controllers
\* has at most two entries and a controller event calls at most one listener.
C24_ControllersRegisteredOnce ==
    /\ Len(controllers) <= 2
    /\ Len(dispatch) <= 1

\* ================================================= claims, SpecWorkshop
\* C23: one click on a spawn button creates exactly one object: objectCounter
\* and the number of interactive objects in the scene each grow by one.
C23_OneClickOneObject ==
    [][SpawnButtonClickStep
        => /\ objectCounter' = objectCounter + 1
           /\ Cardinality(domObjects') = Cardinality(domObjects) + 1]_vars

\* ==================================================== claims, SpecScale
\* C8: under two-hand manipulation the scale is initialScale times
\* clamp(distance / initialInterHandDistance, 0.1, 3.0): it stays within
\* [0.1, 3.0] times the initial scale, does not decrease when the distance
\* grows, and initial distance 0.3 with distance 1.0 gives the factor 3.0.
C8_ScaleClampedAndMonotonic ==
    [][\A ths \in session \cap session' :
          LET s0 == ths.initialScale
              d0 == ths.initialInterHandDistance
          IN /\ FracLeq(<<s0, 10>>, objectScale')
             /\ FracLeq(objectScale', <<3 * s0, 1>>)
             /\ (10 * handDistance' >= d0 /\ handDistance' <= 3 * d0)
                  => FracEq(objectScale', <<s0 * handDistance', d0>>)
             /\ (d0 = 3 /\ handDistance' = 10)
                  => FracEq(objectScale', <<3 * s0, 1>>)
             /\ \A d \in 0..MaxDist :
                  d <= handDistance' => FracLeq(NewScale(s0, d, d0), objectScale')
             /\ handDistance <= handDistance' => FracLeq(objectScale, objectScale')]_vars

\* The hands are more than three times as far apart as at the start of the
\* session and the scale is three times the initial scale.
C8_Witness ==
    /\ handDistance = 10
    /\ \E ths \in session :
          /\ ths.initialInterHandDistance = 3
          /\ FracEq(objectScale, <<3 * ths.initialScale, 1>>)

====
